---- MODULE Spec2Model ----
(***************************************************************************)
(* Model of src/main.py, the "Nicotine Tracker & Motivator" Streamlit      *)
(* script.  The script is executed from top to bottom once per user        *)
(* interaction; one such pass is one action of this model.                 *)
(*                                                                         *)
(* Representation of the quantities of the script:                         *)
(*   - instants (datetime) are integers, in ticks since 00:00 of day 0 of  *)
(*     the model's calendar (day 0 stands for the date widget's min_value);*)
(*     the tick is the resolution of the model's datetime, 12 seconds, the *)
(*     largest unit in which a minute and 0.01 hour are both whole;        *)
(*   - a float number of hours is the exact rational n/d ticks, written as *)
(*     the record [n |-> n, d |-> d]; binary64 rounding error (below one   *)
(*     unit in the last place) is not modelled, binary64 underflow is;     *)
(*   - a float amount of nicotine is [c |-> c, p |-> p, q |-> q], standing *)
(*     for c * 0.5^(p/q) mg, and ZeroAmount for 0.0;                       *)
(*   - widget values with two decimals of hours are in hundredths of hour. *)
(***************************************************************************)
EXTENDS Integers, Sequences, FiniteSets

VARIABLES
    clock,                    \* the wall clock (date.today(), datetime.now())
    dose_amount,              \* sidebar number_input, mg
    dose_date,                \* sidebar date_input, day number
    dose_time,                \* sidebar time_input, ticks since midnight
    future_time,              \* sidebar number_input, hundredths of an hour
    time_points,              \* sidebar slider
    placeholder_date,         \* date.today() as read by the last pass
    error,                    \* the st.error text of the last pass, "" if none
    dose_datetime,            \* <<v>> when the pass assigned it, <<>> otherwise
    current_datetime,         \* <<v>> or <<>>
    time_diff,                \* <<hours>> or <<>>
    time_array,               \* [num |-> sequence of numerators, den |-> d]
    remaining_amount,         \* sequence of amounts
    timestamps,               \* sequence of instants
    current_remaining_amount, \* <<amount>> or <<>>
    fig,                      \* milestone markers added to the chart
    chart_shown,              \* st.plotly_chart was called
    text_list,                \* the lines of the "Health Milestones" column
    prev_achieved             \* history: achieved lines of the preceding pass
                              \* when it evaluated the same dose timestamp

vars == <<clock, dose_amount, dose_date, dose_time, future_time, time_points,
          placeholder_date, error, dose_datetime, current_datetime, time_diff,
          time_array, remaining_amount, timestamps, current_remaining_amount,
          fig, chart_shown, text_list, prev_achieved>>

---------------------------------------------------------------------------
\* Resolution of the model's datetime.
TicksPerMinute == 5
TicksPerHour == 60 * TicksPerMinute
TicksPerDay == 24 * TicksPerHour

\* Bounds of the model: the clock runs from StartClock in steps of ClockStep.
MaxClockSteps == 4
ClockStep == TicksPerHour
StartClock == 92 * TicksPerDay + 9 * TicksPerHour

\* Values a user enters in the widgets.
DoseAmounts == {0, 20}
DaysBack == {0, 92}
DoseTimes == {0, 2 * TicksPerHour, 9 * TicksPerHour, 23 * TicksPerHour}
FutureTimes == {100, 2400}
PointChoices == {50, 500}

---------------------------------------------------------------------------
\* Program constants.
half_life == 2
DefaultDoseAmount == 20
PlaceholderTime == 0
DefaultFutureTime == 2400
DefaultTimePoints == 500
UnderflowExp == 1075
MaxNormalExp == 1022
UnsetMsg == "Please enter the date and time of your last nicotine use."
FutureMsg == "Last nicotine use time cannot be in the future."

milestones == <<
    [time |-> 33,    label |-> "Heart Rate Normalizes"],
    [time |-> 800,   label |-> "Oxygen Levels Normalize"],
    [time |-> 2400,  label |-> "Carbon Monoxide Eliminated"],
    [time |-> 4800,  label |-> "Improved Taste"],
    [time |-> 7200,  label |-> "Cravings Drop"],
    [time |-> 12000, label |-> "Lungs Improve"],
    [time |-> 16800, label |-> "Energy Increased"],
    [time |-> 33600, label |-> "Improved Circulation"],
    [time |-> 72000, label |-> "Lung Health Improvement"] >>

ZeroAmount == [c |-> 0, p |-> 0, q |-> 1]
EmptyArray == [num |-> <<>>, den |-> 1]

---------------------------------------------------------------------------
\* datetime and float helpers.

\* date.today()
DateToday(clk) == clk \div TicksPerDay

\* datetime.combine(dose_date, dose_time)
Combine(d, t) == d * TicksPerDay + t

\* A number of hundredths of an hour (a widget value, a milestone offset) as
\* hours.
CentiHours(c) == [n |-> c * TicksPerHour, d |-> 100]

\* Rounding of n/d to the nearest integer, ties to even (n >= 0, d > 0).
RoundHalfEven(n, d) ==
    LET k == n \div d
        r == n % d
    IN  IF 2 * r < d THEN k
        ELSE IF 2 * r > d THEN k + 1
        ELSE IF k % 2 = 0 THEN k ELSE k + 1

\* timedelta(hours=h): the duration rounded to the datetime resolution.
Timedelta(h) == RoundHalfEven(h.n, h.d)

\* (current_datetime - dose_datetime).total_seconds() / 3600
\* With timedelta.seconds in place of total_seconds(): the days are dropped.
TimeDiffSeconds(now, dose) == [n |-> (now - dose) % TicksPerDay, d |-> 1]
TimeDiff(now, dose) == [n |-> now - dose, d |-> 1]

\* time_diff + future_time
AddHours(a, b) ==
    LET n == a.n * b.d + b.n * a.d
        d == a.d * b.d
    IN  IF n % d = 0 THEN [n |-> n \div d, d |-> 1] ELSE [n |-> n, d |-> d]

\* int(time_points)
IntOf(v) == v

\* np.linspace(0, stop, num) without its last point: the spacing is stop/num.
LinspaceNoEndpoint(stop, num) ==
    [num |-> [i \in 1..num |-> (i - 1) * stop.n], den |-> num * stop.d]
\* np.linspace(0, stop, num): element i is (i-1) * stop / (num-1), and the last
\* element is stop.
Linspace(stop, num) ==
    [num |-> [i \in 1..num |-> (i - 1) * stop.n], den |-> (num - 1) * stop.d]

\* Element i of an array of hours, as hours.
At(arr, i) == [n |-> arr.num[i], d |-> arr.den]

\* t / half_life, as the exponent p/q (t in hours).
Exponent(t, hl) ==
    LET q == t.d * TicksPerHour * hl
    IN  IF t.n % q = 0 THEN [p |-> t.n \div q, q |-> 1] ELSE [p |-> t.n, q |-> q]

\* 0.5 ** x in binary64: the result is 0.0 from x = UnderflowExp on.
\* 2.0 ** x, the base inverted.
Pow2(x) == [c |-> 1, p |-> 0 - x.p, q |-> x.q]
Pow05(x) ==
    IF x.p >= UnderflowExp * x.q THEN ZeroAmount ELSE [c |-> 1, p |-> x.p, q |-> x.q]

\* dose_amount * f
Scale(dose, f) ==
    IF dose = 0 \/ f.c = 0 THEN ZeroAmount ELSE [c |-> dose * f.c, p |-> f.p, q |-> f.q]

\* dose_amount * (0.5 ** (t * half_life)), the operands of the exponent swapped.
DecayTimesHalfLife(dose, hl, t) ==
    Scale(dose, Pow05([p |-> t.n * hl, q |-> t.d * TicksPerHour]))
\* dose_amount * (0.5 ** (t / half_life))
Decay(dose, hl, t) == Scale(dose, Pow05(Exponent(t, hl)))

\* Order of two amounts with the same dose (or 0.0).
AmountLeq(a, b) ==
    IF a.c = 0 THEN TRUE
    ELSE IF b.c = 0 THEN FALSE
    ELSE IF a.q = b.q THEN a.p >= b.p
    ELSE a.p * b.q >= b.p * a.q
AmountEq(a, b) == AmountLeq(a, b) /\ AmountLeq(b, a)
AmountLess(a, b) == AmountLeq(a, b) /\ ~AmountLeq(b, a)

\* calculate_nicotine_decay; dose_dt is the global dose_datetime it reads.
calculate_nicotine_decay(dose, hl, td, ft, tp, dose_dt) ==
    LET total_hours == AddHours(td, ft)
        arr == Linspace(total_hours, IntOf(tp))
    IN  [time_array |-> arr,
         remaining_amount |-> [i \in 1..Len(arr.num) |-> Decay(dose, hl, At(arr, i))],
         timestamps |-> [i \in 1..Len(arr.num) |-> dose_dt + Timedelta(At(arr, i))]]

---------------------------------------------------------------------------
\* Text formatting.

\* floor(log2(n/d)) for n, d > 0.
RECURSIVE Log2Up(_, _, _)
Log2Up(n, d, e) == IF 2 * d <= n THEN Log2Up(n, 2 * d, e + 1) ELSE e
RECURSIVE Log2Down(_, _, _)
Log2Down(n, d, e) == IF n < d THEN Log2Down(2 * n, d, e - 1) ELSE e
Log2Floor(n, d) == IF n >= d THEN Log2Up(n, d, 0) ELSE Log2Down(n, d, 0)

\* 2^k mod 5
Pow2Mod5(k) == <<1, 2, 4, 3>>[(k % 4) + 1]

\* f"{h:.1f}" of h = ticks/TicksPerHour hours, in tenths of an hour.  The
\* decimal is the correctly rounded one of the binary64 quotient: off a tie
\* the nearest tenth; on a tie m/20 (m odd) the quotient is exact only when
\* 5 divides m (ties to even), and otherwise lies above or below m/20 as the
\* 53-bit rounding of m * 2^(50-e) / 5 goes up or down.
Format1f(ticks) ==
    LET tenth == TicksPerHour \div 10
        k == ticks \div tenth
        r == ticks % tenth
        m == ticks \div (tenth \div 2)
        e == Log2Floor(ticks, TicksPerHour)
        f == ((m % 5) * Pow2Mod5(50 - e)) % 5
    IN  IF 2 * r < tenth THEN k
        ELSE IF 2 * r > tenth THEN k + 1
        ELSE IF f = 0 THEN (IF k % 2 = 0 THEN k ELSE k + 1)
        ELSE IF f <= 2 THEN k ELSE k + 1

\* f"{t:%Y-%m-%d %H:%M}": the instant cut to the minute.
FormatMinute(t) == t - (t % TicksPerMinute)

---------------------------------------------------------------------------
\* The checks and the milestone loops of the script.

\* dose_date == placeholder_date and dose_time == placeholder_time
IsPlaceholderDateOnly(dd, dt, pd, pt) == dd = pd /\ dt # pt
IsPlaceholder(dd, dt, pd, pt) == dd = pd /\ dt = pt

\* time_diff < 0
IsFuture(td) == td.n < 0

\* milestone_time = dose_datetime + timedelta(hours=milestone["time"])
MilestoneTime(dose_dt, i) == dose_dt + Timedelta(CentiHours(milestones[i].time))

\* dose_datetime <= milestone_time <= dose_datetime + timedelta(hours=time_array[-1])
ChartCondFutureOnly(m, dose_dt, arr, ft) ==
    dose_dt <= m /\ m <= dose_dt + Timedelta(ft)
ChartCond(m, dose_dt, arr, ft) ==
    dose_dt <= m /\ m <= dose_dt + Timedelta(At(arr, Len(arr.num)))

\* milestone_time > current_datetime and
\* milestone_time <= current_datetime + timedelta(hours=future_time)
UpcomingCondStrict(m, now, ft) == m > now /\ m < now + Timedelta(ft)
UpcomingCond(m, now, ft) == m > now /\ m <= now + Timedelta(ft)

\* milestone_time <= current_datetime
AchievedCondWindow(m, now, ft) == m <= now /\ m + Timedelta(ft) >= now
AchievedCondStrict(m, now, ft) == m < now
AchievedCond(m, now, ft) == m <= now

\* The markers the plot loop adds, in the order of the table.
Markers(dose_dt, arr, ft) ==
    LET all == [i \in 1..Len(milestones) |->
                    [label |-> milestones[i].label, x |-> MilestoneTime(dose_dt, i)]]
    IN  SelectSeq(all, LAMBDA mk : ChartCond(mk.x, dose_dt, arr, ft))

\* The line the text loop writes for milestone i, "none" when it writes none.
TextLine(dose_dt, now, ft, i) ==
    LET m == MilestoneTime(dose_dt, i)
        hours_left == TimeDiff(m, now)
    IN  IF UpcomingCond(m, now, ft)
        THEN [kind |-> "upcoming", label |-> milestones[i].label,
              milestone_time |-> m, hours_left |-> <<hours_left>>,
              text_hours |-> <<Format1f(hours_left.n)>>,
              text_time |-> FormatMinute(m)]
        ELSE IF AchievedCond(m, now, ft)
        THEN [kind |-> "achieved", label |-> milestones[i].label,
              milestone_time |-> m, hours_left |-> <<>>, text_hours |-> <<>>,
              text_time |-> FormatMinute(m)]
        ELSE [kind |-> "none", label |-> milestones[i].label,
              milestone_time |-> m, hours_left |-> <<>>, text_hours |-> <<>>,
              text_time |-> FormatMinute(m)]

TextLines(dose_dt, now, ft) ==
    SelectSeq([i \in 1..Len(milestones) |-> TextLine(dose_dt, now, ft, i)],
              LAMBDA ln : ln.kind # "none")

AchievedLines(lines) == SelectSeq(lines, LAMBDA ln : ln.kind = "achieved")

---------------------------------------------------------------------------
\* One pass of the script over the widget values da, dd, dt, ft, tp.

\* st.error(msg); st.stop(): nothing after the check is executed.  The
\* widgets below the check are not instantiated, and show their defaults when
\* a later pass instantiates them.
Stop(msg, dose_dt, now, td) ==
    /\ error' = msg
    /\ dose_datetime' = dose_dt
    /\ current_datetime' = now
    /\ time_diff' = td
    /\ future_time' = DefaultFutureTime
    /\ time_points' = DefaultTimePoints
    /\ time_array' = EmptyArray
    /\ remaining_amount' = <<>>
    /\ timestamps' = <<>>
    /\ current_remaining_amount' = <<>>
    /\ fig' = <<>>
    /\ chart_shown' = FALSE
    /\ text_list' = <<>>
    /\ prev_achieved' = <<>>

Evaluate(da, ft, tp, dose_dt, now, td) ==
    LET fth == CentiHours(ft)
        res == calculate_nicotine_decay(da, half_life, td, fth, tp, dose_dt)
    IN  /\ error' = ""
        /\ dose_datetime' = <<dose_dt>>
        /\ current_datetime' = <<now>>
        /\ time_diff' = <<td>>
        /\ future_time' = ft
        /\ time_points' = tp
        /\ time_array' = res.time_array
        /\ remaining_amount' = res.remaining_amount
        /\ timestamps' = res.timestamps
        /\ current_remaining_amount' = <<Decay(da, half_life, td)>>
        /\ fig' = Markers(dose_dt, res.time_array, fth)
        /\ chart_shown' = TRUE
        /\ text_list' = TextLines(dose_dt, now, fth)
        /\ prev_achieved' = IF error = "" /\ dose_datetime = <<dose_dt>>
                            THEN AchievedLines(text_list) ELSE <<>>

Script(da, dd, dt, ft, tp) ==
    LET today == DateToday(clock)
        dose_dt == Combine(dd, dt)
        now == clock
        td == TimeDiff(now, dose_dt)
    IN  /\ dose_amount' = da
        /\ dose_date' = dd
        /\ dose_time' = dt
        /\ placeholder_date' = today
        /\ clock' = clock
        /\ IF IsPlaceholder(dd, dt, today, PlaceholderTime)
           THEN Stop(UnsetMsg, <<>>, <<>>, <<>>)
           ELSE IF IsFuture(td)
           THEN Stop(FutureMsg, <<dose_dt>>, <<now>>, <<td>>)
           ELSE Evaluate(da, ft, tp, dose_dt, now, td)

---------------------------------------------------------------------------
\* The session.

\* The first pass of a session: every widget shows its default, so the dose
\* timestamp is the placeholder one.
Init ==
    /\ clock = StartClock
    /\ dose_amount = DefaultDoseAmount
    /\ dose_date = DateToday(StartClock)
    /\ dose_time = PlaceholderTime
    /\ future_time = DefaultFutureTime
    /\ time_points = DefaultTimePoints
    /\ placeholder_date = DateToday(StartClock)
    /\ error = UnsetMsg
    /\ dose_datetime = <<>>
    /\ current_datetime = <<>>
    /\ time_diff = <<>>
    /\ time_array = EmptyArray
    /\ remaining_amount = <<>>
    /\ timestamps = <<>>
    /\ current_remaining_amount = <<>>
    /\ fig = <<>>
    /\ chart_shown = FALSE
    /\ text_list = <<>>
    /\ prev_achieved = <<>>

\* The dates the date widget accepts: min_value <= d <= date.today().
DateChoices == {d \in {DateToday(clock) - b : b \in DaysBack} : d >= 0}

ChangeDoseAmount ==
    \E v \in DoseAmounts \ {dose_amount} :
        Script(v, dose_date, dose_time, future_time, time_points)

ChangeDoseDate ==
    \E d \in DateChoices \ {dose_date} :
        Script(dose_amount, d, dose_time, future_time, time_points)

ChangeDoseTime ==
    \E t \in DoseTimes \ {dose_time} :
        Script(dose_amount, dose_date, t, future_time, time_points)

\* The two number widgets below the checks exist only after a pass that
\* reached them.
ChangeFutureTime ==
    /\ error = ""
    /\ \E f \in FutureTimes \ {future_time} :
        Script(dose_amount, dose_date, dose_time, f, time_points)

ChangeTimePoints ==
    /\ error = ""
    /\ \E n \in PointChoices \ {time_points} :
        Script(dose_amount, dose_date, dose_time, future_time, n)

\* A pass with no widget changed (a reload of the page).
Rerun == Script(dose_amount, dose_date, dose_time, future_time, time_points)

\* Time passes.
Tick ==
    /\ clock < StartClock + MaxClockSteps * ClockStep
    /\ clock' = clock + ClockStep
    /\ UNCHANGED <<dose_amount, dose_date, dose_time, future_time, time_points,
                   placeholder_date, error, dose_datetime, current_datetime,
                   time_diff, time_array, remaining_amount, timestamps,
                   current_remaining_amount, fig, chart_shown, text_list,
                   prev_achieved>>

Next ==
    \/ ChangeDoseAmount
    \/ ChangeDoseDate
    \/ ChangeDoseTime
    \/ ChangeFutureTime
    \/ ChangeTimePoints
    \/ Rerun
    \/ Tick

Spec == Init /\ [][Next]_vars

---------------------------------------------------------------------------
\* Vocabulary of the properties.

Evaluated == error = ""

NoOutput ==
    /\ time_array = EmptyArray
    /\ remaining_amount = <<>>
    /\ timestamps = <<>>
    /\ current_remaining_amount = <<>>
    /\ fig = <<>>
    /\ ~chart_shown
    /\ text_list = <<>>

Dose == dose_datetime[1]
Now == current_datetime[1]
Elapsed == time_diff[1].n
\* Hundredths of an hour in ticks.
Ticks(c) == (c * TicksPerHour) \div 100
Horizon == Ticks(future_time)
MilestoneAt(i) == Dose + Ticks(milestones[i].time)
NSamples == Len(time_array.num)

LinesOf(i, kind) ==
    {j \in 1..Len(text_list) :
        text_list[j].label = milestones[i].label /\ text_list[j].kind = kind}
ListedAchieved(i) == LinesOf(i, "achieved") # {}
ListedUpcoming(i) == LinesOf(i, "upcoming") # {}
OutOfHorizon(i) == MilestoneAt(i) > Now + Horizon
Marked(i) ==
    \E j \in 1..Len(fig) :
        fig[j].label = milestones[i].label /\ fig[j].x = MilestoneAt(i)
Count(b) == IF b THEN 1 ELSE 0

---------------------------------------------------------------------------
\* C1: whenever the entered dose date is today's date and the entered dose
\* time is midnight, the pass stops with the prompt and produces no decay
\* series, no current remaining amount, no chart and no milestone list.
C1_UnsetStopsThePass ==
    (dose_date = placeholder_date /\ dose_time = PlaceholderTime)
        => (error = UnsetMsg /\ NoOutput)

\* A pass that a user's change of the dose amount started, stopped by the
\* prompt.
C1_Witness ==
    /\ dose_date = placeholder_date /\ dose_time = PlaceholderTime
    /\ dose_amount # DefaultDoseAmount
    /\ error = UnsetMsg

\* C2: whenever the dose timestamp is later than the current time the pass
\* read, it stops with the invalid-input error before the decay computation;
\* so every pass that produces output has time_diff >= 0.
C2_FutureDoseStopsThePass ==
    /\ (dose_datetime # <<>> /\ Dose > Now) => (error = FutureMsg /\ NoOutput)
    /\ (~NoOutput) => (Evaluated /\ Elapsed >= 0 /\ Dose <= Now)

C2_Witness == dose_datetime # <<>> /\ Dose > Now /\ error = FutureMsg

\* C3: in every evaluation each of the 9 milestones is in exactly one of the
\* classes achieved, upcoming and out-of-horizon.
C3_ClassesPartition ==
    Evaluated =>
        /\ Len(milestones) = 9
        /\ \A i \in 1..Len(milestones) :
            /\ Count(ListedAchieved(i)) + Count(ListedUpcoming(i))
                   + Count(OutOfHorizon(i)) = 1
            /\ Cardinality(LinesOf(i, "achieved") \cup LinesOf(i, "upcoming")) <= 1

\* An evaluation in which all three classes occur, one milestone exactly at
\* the end of the horizon.
C3_Witness ==
    /\ Evaluated
    /\ \E i, j, k \in 1..Len(milestones) :
        /\ ListedAchieved(i) /\ OutOfHorizon(k)
        /\ ListedUpcoming(j) /\ MilestoneAt(j) = Now + Horizon

\* C4: the text list reports milestone m = dose timestamp + offset as achieved,
\* with time m, exactly when m <= current time; as upcoming exactly when
\* current time < m <= current time + future_horizon, with hours left
\* m - current time; and not at all otherwise.  With the evaluation one hour
\* after the dose and a horizon of 24 h, the 0.33 h milestone is achieved and
\* the 8 h milestone is upcoming with 7.0 hours left.
C4_TextListClassification ==
    Evaluated =>
        /\ \A i \in 1..Len(milestones) :
            LET m == MilestoneAt(i) IN
            /\ (m <= Now) <=>
                   \E j \in LinesOf(i, "achieved") : text_list[j].milestone_time = m
            /\ (Now < m /\ m <= Now + Horizon) <=>
                   \E j \in LinesOf(i, "upcoming") :
                       /\ text_list[j].milestone_time = m
                       /\ text_list[j].hours_left = <<[n |-> m - Now, d |-> 1]>>
            /\ ListedAchieved(i) => m <= Now
            /\ ListedUpcoming(i) => (Now < m /\ m <= Now + Horizon)
        /\ (Now = Dose + TicksPerHour /\ future_time = 2400) =>
            /\ ListedAchieved(1)
            /\ \E j \in LinesOf(2, "upcoming") :
                /\ text_list[j].hours_left = <<[n |-> 7 * TicksPerHour, d |-> 1]>>
                /\ text_list[j].text_hours = <<70>>

C4_Witness ==
    /\ Evaluated /\ Now = Dose + TicksPerHour /\ future_time = 2400
    /\ ListedAchieved(1) /\ ListedUpcoming(2) /\ ~ListedUpcoming(4)

\* C5 as claimed: the chart marks a milestone exactly when it lies between the
\* dose timestamp and the dose timestamp + total plotted hours, and the end of
\* that window is another instant than the end of the text list's horizon (so
\* that an out-of-horizon milestone can be marked).
C5_AsClaimed ==
    Evaluated =>
        /\ \A i \in 1..Len(milestones) :
            Marked(i) <=> (Dose <= MilestoneAt(i) /\ MilestoneAt(i) <= Dose + Elapsed + Horizon)
        /\ Dose + Elapsed + Horizon # Now + Horizon

\* C5, amended: the chart marks a milestone exactly when it lies between the
\* dose timestamp and the dose timestamp + total plotted hours; that window
\* ends at current time + future_horizon, so the chart marks exactly the
\* milestones the text list reports, and never an out-of-horizon one.
C5_ChartMarksTheListed ==
    Evaluated =>
        \A i \in 1..Len(milestones) :
            /\ Marked(i) <=> (Dose <= MilestoneAt(i) /\ MilestoneAt(i) <= Dose + Elapsed + Horizon)
            /\ Marked(i) <=> (ListedAchieved(i) \/ ListedUpcoming(i))
            /\ OutOfHorizon(i) => ~Marked(i)

\* An evaluation some time after the dose, with marked and unmarked
\* milestones.
C5_Witness ==
    /\ Evaluated /\ Elapsed > 0
    /\ \E i, j, k \in 1..Len(milestones) :
        /\ Marked(i) /\ ListedAchieved(i)
        /\ Marked(j) /\ ListedUpcoming(j)
        /\ OutOfHorizon(k) /\ ~Marked(k)

\* C6: the series has exactly sample_count elapsed-hour samples, the first 0,
\* the last elapsed_since_dose + future_horizon, all consecutive differences
\* equal; the timestamp of a sample is the dose timestamp + its elapsed hours
\* (a datetime: to the resolution of the clock).
C6_SampleSeries ==
    Evaluated =>
        /\ NSamples = time_points
        /\ Len(remaining_amount) = time_points
        /\ Len(timestamps) = time_points
        /\ time_array.num[1] = 0
        /\ time_array.num[NSamples] = (Elapsed + Horizon) * time_array.den
        /\ \A i \in 1..(NSamples - 1) :
            time_array.num[i + 1] - time_array.num[i]
                = time_array.num[2] - time_array.num[1]
        /\ \A i \in 1..NSamples :
            LET off == (timestamps[i] - Dose) * time_array.den - time_array.num[i]
            IN  2 * off <= time_array.den /\ 2 * off >= 0 - time_array.den

\* A series of 50 samples whose spacing is not a whole number of ticks.
C6_Witness ==
    /\ Evaluated /\ time_points = 50 /\ Elapsed > 0
    /\ time_array.num[2] % time_array.den # 0

C8_AsClaimed ==
    (Evaluated /\ dose_amount > 0) =>
        /\ \A i \in 1..(NSamples - 1) :
            AmountLess(remaining_amount[i + 1], remaining_amount[i])
        /\ \A i \in 1..NSamples :
            /\ AmountLeq(ZeroAmount, remaining_amount[i])
            /\ AmountLeq(remaining_amount[i], [c |-> dose_amount, p |-> 0, q |-> 1])

\* C8, amended: for dose_amount > 0 the remaining amounts of the series are
\* non-increasing, strictly decreasing as long as they are normal binary64
\* numbers (samples that underflowed to 0.0 are equal), and each is between 0
\* and dose_amount.
C8_NonIncreasingAndBounded ==
    (Evaluated /\ dose_amount > 0) =>
        /\ \A i \in 1..(NSamples - 1) :
            /\ AmountLeq(remaining_amount[i + 1], remaining_amount[i])
            /\ (/\ remaining_amount[i + 1].c >= 1
                /\ remaining_amount[i + 1].p <= MaxNormalExp * remaining_amount[i + 1].q)
                   => AmountLess(remaining_amount[i + 1], remaining_amount[i])
        /\ \A i \in 1..NSamples :
            /\ AmountLeq(ZeroAmount, remaining_amount[i])
            /\ AmountLeq(remaining_amount[i], [c |-> dose_amount, p |-> 0, q |-> 1])

\* A series that decreases at its start and has underflowed at its end.
C8_Witness ==
    /\ Evaluated /\ dose_amount > 0
    /\ AmountLess(remaining_amount[2], remaining_amount[1])
    /\ remaining_amount[NSamples - 1] = ZeroAmount
    /\ remaining_amount[NSamples] = ZeroAmount

\* C9 as claimed: a pass gets past the 'unset' check only if the user changed
\* both the placeholder date and the placeholder time.
C9_AsClaimed ==
    (error # UnsetMsg) =>
        (dose_date # placeholder_date /\ dose_time # PlaceholderTime)

\* C10: from one evaluation to the next one of the same dose timestamp, at a
\* current time that is not earlier, every milestone reported as achieved is
\* still reported as achieved, with the same achievement time.
C10_AchievedStaysAchieved ==
    [][(/\ Evaluated
        /\ error' = ""
        /\ dose_datetime' = dose_datetime
        /\ current_datetime'[1] >= current_datetime[1])
          => \A j \in 1..Len(text_list) :
                text_list[j].kind = "achieved"
                    => \E k \in 1..Len(text_list') : text_list'[k] = text_list[j]]_vars

\* An evaluation that follows one of the same dose timestamp and reports more
\* milestones as achieved than that one did.
C10_Witness ==
    /\ Evaluated
    /\ prev_achieved # <<>>
    /\ Len(AchievedLines(text_list)) > Len(prev_achieved)
    /\ \A j \in 1..Len(prev_achieved) :
        \E k \in 1..Len(text_list) : text_list[k] = prev_achieved[j]

====
